---------------------------- MODULE Spec2Model ----------------------------
(***************************************************************************)
(* A model of the rusty-lisp reader (src/src/main.rs): the pom parser      *)
(* combinators it is built from, the grammar it composes from them, and    *)
(* the two entry points read_expr and read_list.                           *)
(*                                                                         *)
(* Bytes are the integers 0..255.  A cursor is a 0-based offset into the   *)
(* input, as in pom; input[pos + 1] is the byte under the cursor.          *)
(* A 64-bit signed integer is a sign and a magnitude of three 21-bit       *)
(* limbs (3 * 21 = 63), so that the range check of i64 is exact.           *)
(***************************************************************************)
EXTENDS Integers, Sequences, FiniteSets, TLC

VARIABLES chunks, called, result

vars == <<chunks, called, result>>

(***************************************************************************)
(* Bytes                                                                   *)
(***************************************************************************)

\* The ASCII code of a one-character string.
Ch(c) ==
  CASE c = "\t" -> 9  [] c = "\n" -> 10 [] c = "\r" -> 13 [] c = " " -> 32
    [] c = "!" -> 33 [] c = "\"" -> 34 [] c = "#" -> 35 [] c = "$" -> 36
    [] c = "%" -> 37 [] c = "&" -> 38 [] c = "(" -> 40 [] c = ")" -> 41
    [] c = "*" -> 42 [] c = "+" -> 43 [] c = "-" -> 45 [] c = "." -> 46
    [] c = "/" -> 47
    [] c = "0" -> 48 [] c = "1" -> 49 [] c = "2" -> 50 [] c = "3" -> 51
    [] c = "4" -> 52 [] c = "5" -> 53 [] c = "6" -> 54 [] c = "7" -> 55
    [] c = "8" -> 56 [] c = "9" -> 57
    [] c = ":" -> 58 [] c = "<" -> 60 [] c = "=" -> 61 [] c = ">" -> 62
    [] c = "?" -> 63 [] c = "@" -> 64
    [] c = "A" -> 65 [] c = "B" -> 66 [] c = "C" -> 67 [] c = "D" -> 68
    [] c = "E" -> 69 [] c = "F" -> 70 [] c = "G" -> 71 [] c = "Z" -> 90
    [] c = "\\" -> 92 [] c = "^" -> 94 [] c = "_" -> 95
    [] c = "a" -> 97 [] c = "b" -> 98 [] c = "c" -> 99 [] c = "d" -> 100
    [] c = "e" -> 101 [] c = "f" -> 102 [] c = "g" -> 103 [] c = "n" -> 110
    [] c = "o" -> 111 [] c = "t" -> 116 [] c = "x" -> 120 [] c = "z" -> 122
    [] c = "|" -> 124 [] c = "~" -> 126

\* A byte string literal b"...", written as a tuple of one-character strings.
B(cs) == [i \in 1..Len(cs) |-> Ch(cs[i])]

\* The set of bytes of a byte string (the argument of one_of / none_of).
SetOf(bs) == {bs[i] : i \in 1..Len(bs)}

RECURSIVE Concat(_)
Concat(ss) == IF ss = <<>> THEN <<>> ELSE Head(ss) \o Concat(Tail(ss))

Replicate(b, n) == [i \in 1..n |-> b]

(***************************************************************************)
(* UTF-8 (std::string::String::from_utf8, String::from_utf8_lossy)         *)
(***************************************************************************)

IsCont(b) == b >= 128 /\ b <= 191

\* The UTF-8 scalar starting at 1-based index i of bs: [valid, len], where
\* len is the length of the scalar when valid and the length of the
\* maximal invalid prefix (1..3 bytes) otherwise.
Utf8Step(bs, i) ==
  LET b0 == bs[i]
      n  == Len(bs)
      has(k) == i + k <= n
      b(k) == bs[i + k]
      Bad(k) == [valid |-> FALSE, len |-> k]
      Good(k) == [valid |-> TRUE, len |-> k]
  IN  IF b0 < 128 THEN Good(1)
      ELSE IF b0 >= 194 /\ b0 <= 223
        THEN IF has(1) /\ IsCont(b(1)) THEN Good(2) ELSE Bad(1)
      ELSE IF b0 >= 224 /\ b0 <= 239
        THEN LET lo == IF b0 = 224 THEN 160 ELSE 128
                 hi == IF b0 = 237 THEN 159 ELSE 191
             IN  IF ~(has(1) /\ b(1) >= lo /\ b(1) <= hi) THEN Bad(1)
                 ELSE IF ~(has(2) /\ IsCont(b(2))) THEN Bad(2)
                 ELSE Good(3)
      ELSE IF b0 >= 240 /\ b0 <= 244
        THEN LET lo == IF b0 = 240 THEN 144 ELSE 128
                 hi == IF b0 = 244 THEN 143 ELSE 191
             IN  IF ~(has(1) /\ b(1) >= lo /\ b(1) <= hi) THEN Bad(1)
                 ELSE IF ~(has(2) /\ IsCont(b(2))) THEN Bad(2)
                 ELSE IF ~(has(3) /\ IsCont(b(3))) THEN Bad(3)
                 ELSE Good(4)
      ELSE Bad(1)

\* The scan of bs from index i by at most `fuel` scalars: whether all were
\* valid, and the text with every maximal invalid part replaced by U+FFFD.
\* The scan is split in halves (each scalar takes at least one byte).
RECURSIVE Utf8Scan(_, _, _, _, _)
Utf8Scan(bs, i, valid, out, fuel) ==
  IF i > Len(bs) THEN [i |-> i, valid |-> valid, out |-> out]
  ELSE IF fuel <= 1
    THEN LET s == Utf8Step(bs, i)
         IN  [i |-> i + s.len, valid |-> valid /\ s.valid,
              out |-> out \o (IF s.valid THEN SubSeq(bs, i, i + s.len - 1)
                              ELSE <<239, 191, 189>>)]
    ELSE LET half == fuel \div 2
             a == Utf8Scan(bs, i, valid, out, half)
         IN  Utf8Scan(bs, a.i, a.valid, a.out, fuel - half)

\* String::from_utf8(bytes): Ok(the same bytes as text) or Err.
FromUtf8(bs) ==
  IF Utf8Scan(bs, 1, TRUE, <<>>, Len(bs)).valid THEN [ok |-> TRUE, text |-> bs]
  ELSE [ok |-> FALSE, text |-> <<>>]

\* String::from_utf8_lossy(bytes): every maximal invalid part becomes U+FFFD.
FromUtf8Lossy(bs) == Utf8Scan(bs, 1, TRUE, <<>>, Len(bs)).out

\* str::to_lowercase on ASCII text (a new string; the receiver is unchanged).
ToLowercase(s) ==
  [i \in 1..Len(s) |-> IF s[i] >= 65 /\ s[i] <= 90 THEN s[i] + 32 ELSE s[i]]

(***************************************************************************)
(* i64 and i64::from_str_radix                                             *)
(***************************************************************************)

Limb == 2097152     \* 2^21

\* A non-negative integer below 2^42 as an i64.
I64(n) == [neg |-> FALSE, mag |-> <<0, n \div Limb, n % Limb>>]

\* char::to_digit(radix): the digit value of byte c, or -1.
ToDigit(c, radix) ==
  LET v == IF c >= 48 /\ c <= 57 THEN c - 48
           ELSE IF c >= 97 /\ c <= 122 THEN c - 97 + 10
           ELSE IF c >= 65 /\ c <= 90 THEN c - 65 + 10
           ELSE 99
  IN  IF v < radix THEN v ELSE -1

\* mag * radix + d on the limbs, with the carry out of the top limb.
MulAdd(mag, radix, d) ==
  LET l0 == mag[3] * radix + d
      l1 == mag[2] * radix + (l0 \div Limb)
      l2 == mag[1] * radix + (l1 \div Limb)
  IN  <<l2, l1 % Limb, l0 % Limb>>

\* checked_mul(radix) then checked_add(d) (checked_sub for a negative
\* number): the magnitude may reach 2^63 - 1, and 2^63 when negative.
InRange(m, neg) ==
  m[1] < Limb \/ (neg /\ m[1] = Limb /\ m[2] = 0 /\ m[3] = 0)

\* The digit loop of from_str_radix over s[i..], at most `fuel` digits:
\* [ok, mag, i].  `checked` is the range check after every digit.  The loop
\* is split in halves.
RECURSIVE Accumulate(_, _, _, _, _, _, _)
Accumulate(s, i, radix, neg, mag, checked, fuel) ==
  IF i > Len(s) THEN [ok |-> TRUE, mag |-> mag, i |-> i]
  ELSE IF fuel <= 1
    THEN LET d == ToDigit(s[i], radix)
             m == MulAdd(mag, radix, d)
         IN  IF d < 0 THEN [ok |-> FALSE, mag |-> mag, i |-> i]
             ELSE IF checked /\ ~InRange(m, neg) THEN [ok |-> FALSE, mag |-> mag, i |-> i]
             ELSE [ok |-> TRUE, i |-> i + 1,
                   mag |-> IF checked THEN m ELSE <<m[1] % Limb, m[2], m[3]>>]
    ELSE LET half == fuel \div 2
             a == Accumulate(s, i, radix, neg, mag, checked, half)
         IN  IF ~a.ok THEN a
             ELSE Accumulate(s, a.i, radix, neg, a.mag, checked, fuel - half)

Digits(s, from, radix, neg, checked) ==
  LET a == Accumulate(s, from, radix, neg, <<0, 0, 0>>, checked, Len(s))
  IN  IF a.ok THEN [ok |-> TRUE, val |-> [neg |-> neg /\ a.mag # <<0, 0, 0>>, mag |-> a.mag]]
      ELSE [ok |-> FALSE, val |-> I64(0)]

\* A from_str_radix that wraps modulo 2^63 instead of checking the range.
FromStrRadixWrapping(s, radix) ==
  IF s = <<>> THEN [ok |-> FALSE, val |-> I64(0)]
  ELSE Digits(s, 1, radix, FALSE, FALSE)

\* i64::from_str_radix(s, radix): Ok(value) or Err (empty, a lone sign, an
\* invalid digit, or a value outside the i64 range).
FromStrRadix(s, radix) ==
  IF s = <<>> \/ (s[1] \in {43, 45} /\ Len(s) = 1)
    THEN [ok |-> FALSE, val |-> I64(0)]
    ELSE Digits(s, IF s[1] \in {43, 45} THEN 2 ELSE 1, radix, s[1] = 45, TRUE)

(***************************************************************************)
(* LispVal                                                                 *)
(***************************************************************************)

NoVal == [tag |-> "None", num |-> I64(0), text |-> <<>>, bool |-> FALSE, items |-> <<>>]

Atom(s)    == [NoVal EXCEPT !.tag = "Atom", !.text = s]
List(vs)   == [NoVal EXCEPT !.tag = "List", !.items = vs]
Number(n)  == [NoVal EXCEPT !.tag = "Number", !.num = n]
String(s)  == [NoVal EXCEPT !.tag = "String", !.text = s]
Bool(b)    == [NoVal EXCEPT !.tag = "Bool", !.bool = b]

(***************************************************************************)
(* pom::parser: parsers as combinator trees, and their evaluation          *)
(***************************************************************************)

\* Result<(O, usize)> of a parser method, plus the unwinding of a panic
\* raised inside a closure the parser runs.
Ok(out, pos)     == [kind |-> "Ok", out |-> out, pos |-> pos, why |-> "none"]
Err(why, pos)    == [kind |-> "Err", out |-> <<>>, pos |-> pos, why |-> why]
Panic(why)       == [kind |-> "Panic", out |-> <<>>, pos |-> 0, why |-> why]

sym(b)           == [op |-> "sym", b |-> b]
one_of(bs)       == [op |-> "one_of", set |-> SetOf(bs)]
none_of(bs)      == [op |-> "none_of", set |-> SetOf(bs)]
is_a(pred)       == [op |-> "is_a", pred |-> pred]
Then(l, r)       == [op |-> "seq", keep |-> "right", l |-> l, r |-> r]   \* l * r
Skip(l, r)       == [op |-> "seq", keep |-> "left", l |-> l, r |-> r]    \* l - r
Pair(l, r)       == [op |-> "seq", keep |-> "both", l |-> l, r |-> r]    \* l + r
Or(l, r)         == [op |-> "or", l |-> l, r |-> r]                      \* l | r
repeat(p, min)   == [op |-> "repeat", p |-> p, min |-> min]              \* p.repeat(min..)
collect(p)       == [op |-> "collect", p |-> p]
discard(p)       == [op |-> "discard", p |-> p]
map(p, f)        == [op |-> "map", p |-> p, f |-> f]
convert(p, f)    == [op |-> "convert", p |-> p, f |-> f]
list(p, sep)     == [op |-> "list", p |-> p, sep |-> sep]
call(p)          == [op |-> "call", p |-> p]

\* pom::char_class::alpha
alpha(c) == (c >= 97 /\ c <= 122) \/ (c >= 65 /\ c <= 90)

Predicate(pred, c) == CASE pred = "alpha" -> alpha(c)

\* The closures handed to map: [panic, out].
Returns(v) == [panic |-> FALSE, out |-> v, why |-> "none"]
Unwinds(why) == [panic |-> TRUE, out |-> <<>>, why |-> why]

\* LispVal::Number(n.unwrap()) on the Result of from_str_radix
\* (main.rs:59, 69, 79, 90).
UnwrapNumber(n, why) == IF n.ok THEN Returns(Number(n.val)) ELSE Unwinds(why)

\* main.rs:46-50
AtomClosure(matched) ==
  IF matched = <<35, 116>> THEN Returns(Bool(TRUE))
  ELSE IF matched = <<35, 102>> THEN Returns(Bool(FALSE))
  ELSE LET s == FromUtf8(matched)
       IN  IF s.ok THEN Returns(Atom(s.text)) ELSE Unwinds("atom: from_utf8")

\* A decimal closure that wraps on overflow instead of unwinding.
DecimalClosureWrapping(parsed) ==
  LET n == FromStrRadixWrapping(FromUtf8(parsed).text, 10)
  IN  Returns(Number(n.val))

\* main.rs:57-60
DecimalClosure(parsed) ==
  LET as_string == FromUtf8(parsed)
  IN  IF ~as_string.ok THEN Unwinds("decimal_number: from_utf8")
      ELSE UnwrapNumber(FromStrRadix(as_string.text, 10),
                        "decimal_number: from_str_radix")

\* main.rs:67-70, 77-80: the digits after the two-byte prefix, in `radix`.
PrefixedClosure(parsed, radix, name) ==
  LET as_string == FromUtf8Lossy(SubSeq(parsed, 3, Len(parsed)))
  IN  UnwrapNumber(FromStrRadix(as_string, radix), name)

\* main.rs:87-91: to_lowercase builds a new string that is dropped; as_string
\* itself is what from_str_radix reads.
HexClosure(parsed) ==
  LET as_string == FromUtf8Lossy(SubSeq(parsed, 3, Len(parsed)))
      lowered == ToLowercase(as_string)
  IN  UnwrapNumber(FromStrRadix(as_string, 16), "hex_number: from_str_radix")

ApplyMap(f, out) ==
  CASE f = "atom" -> AtomClosure(out)
    [] f = "decimal" -> DecimalClosure(out)
    [] f = "binary" -> PrefixedClosure(out, 2, "binary_number: from_str_radix")
    [] f = "octal" -> PrefixedClosure(out, 8, "octal_number: from_str_radix")
    [] f = "hex" -> HexClosure(out)
    [] f = "string" -> Returns(String(out))           \* main.rs:38

\* The closures handed to convert: [ok, out].
ApplyConvert(f, out) ==
  CASE f = "from_utf8" -> LET s == FromUtf8(out)      \* main.rs:37
                          IN  [ok |-> s.ok, out |-> s.text]

RECURSIVE Run(_, _, _)
RECURSIVE RepeatLoop(_, _, _, _, _)
RECURSIVE ListLoop(_, _, _, _, _)

\* Parser::map: the closure's value at the cursor the inner parser reached;
\* an unwinding closure unwinds the parser.
Mapped(v, pos) == IF v.panic THEN Panic(v.why) ELSE Ok(v.out, pos)

\* Parser::convert: the closure's Ok at the cursor the inner parser reached,
\* its Err as a Conversion error at the start.
Converted(v, pos, start) == IF v.ok THEN Ok(v.out, pos) ELSE Err("Conversion", start)

\* The bytes a one byte matcher (sym, one_of, none_of, is_a) takes.
Accepts(p, c) ==
  CASE p.op = "sym" -> c = p.b
    [] p.op = "one_of" -> c \in p.set
    [] p.op = "none_of" -> c \notin p.set
    [] p.op = "is_a" -> Predicate(p.pred, c)

\* One byte matchers: Incomplete at the end of the input, Mismatch on a byte
\* that does not match.
OneByte(p, input, start) ==
  IF start >= Len(input) THEN Err("Incomplete", start)
  ELSE IF Accepts(p, input[start + 1]) THEN Ok(input[start + 1], start + 1)
  ELSE Err("Mismatch", start)

\* The loop of Parser::repeat(min..): apply p until it fails, each time from
\* where the last success ended, at most `fuel` times.  [done, res]: done
\* when p failed (res is the Ok of the items so far, or the panic), else
\* res is the Ok of the items and cursor to go on from.  The iterations are
\* split in halves so that the evaluation depth is logarithmic in `fuel`.
RepeatLoop(p, input, pos, items, fuel) ==
  IF fuel <= 1
    THEN LET r == Run(p, input, pos)
         IN  IF r.kind = "Panic" THEN [done |-> TRUE, res |-> r]
             ELSE IF r.kind = "Err" THEN [done |-> TRUE, res |-> Ok(items, pos)]
             ELSE [done |-> FALSE, res |-> Ok(Append(items, r.out), r.pos)]
    ELSE LET half == fuel \div 2
             a == RepeatLoop(p, input, pos, items, half)
         IN  IF a.done THEN a
             ELSE RepeatLoop(p, input, a.res.pos, a.res.out, fuel - half)

\* pom::parser::list after the first item: a separator and one more item,
\* or stop where the last item ended.
ListLoop(p, sep, input, pos, items) ==
  LET s == Run(sep, input, pos)
  IN  IF s.kind = "Panic" THEN s
      ELSE IF s.kind = "Err" THEN Ok(items, pos)
      ELSE LET more == Run(p, input, s.pos)
           IN  IF more.kind = "Panic" THEN more
               ELSE IF more.kind = "Err" THEN Ok(items, pos)
               ELSE ListLoop(p, sep, input, more.pos, Append(items, more.out))

\* (parser.method)(input, start)
Run(p, input, start) ==
  CASE p.op \in {"sym", "one_of", "none_of", "is_a"} -> OneByte(p, input, start)
    [] p.op = "seq" ->
         LET a == Run(p.l, input, start)
         IN  IF a.kind # "Ok" THEN a
             ELSE LET b == Run(p.r, input, a.pos)
                  IN  IF b.kind # "Ok" THEN b
                      ELSE Ok(CASE p.keep = "left" -> a.out
                                [] p.keep = "right" -> b.out
                                [] p.keep = "both" -> <<a.out, b.out>>, b.pos)
    [] p.op = "or" ->
         LET a == Run(p.l, input, start)
         IN  IF a.kind = "Err" THEN Run(p.r, input, start) ELSE a
    [] p.op = "repeat" ->
         \* every success of p consumes a byte, so Len(input) - start + 1
         \* applications reach the failing one
         LET r == RepeatLoop(p.p, input, start, <<>>, Len(input) - start + 1).res
         IN  IF r.kind = "Ok" /\ Len(r.out) < p.min THEN Err("Mismatch", start)
             ELSE r
    [] p.op = "collect" ->
         LET r == Run(p.p, input, start)
         IN  IF r.kind # "Ok" THEN r
             ELSE Ok(SubSeq(input, start + 1, r.pos), r.pos)
    [] p.op = "discard" ->
         LET r == Run(p.p, input, start)
         IN  IF r.kind # "Ok" THEN r ELSE Ok(<<>>, r.pos)
    [] p.op = "map" ->
         LET r == Run(p.p, input, start)
         IN  IF r.kind # "Ok" THEN r
             ELSE Mapped(ApplyMap(p.f, r.out), r.pos)
    [] p.op = "convert" ->
         LET r == Run(p.p, input, start)
         IN  IF r.kind # "Ok" THEN r
             ELSE Converted(ApplyConvert(p.f, r.out), r.pos, start)
    [] p.op = "list" ->
         LET first == Run(p.p, input, start)
         IN  IF first.kind = "Panic" THEN first
             ELSE IF first.kind = "Err" THEN Ok(<<>>, start)
             ELSE ListLoop(p.p, p.sep, input, first.pos, <<first.out>>)
    [] p.op = "call" -> Run(p.p, input, start)

(***************************************************************************)
(* The grammar (main.rs:15-105)                                            *)
(***************************************************************************)

letter == is_a("alpha")

digit == one_of(B(<<"0", "1", "2", "3", "4", "5", "6", "7", "8", "9">>))

symbol ==
  one_of(B(<<"!", "#", "$", "%", "&", "|", "*", "+", "-", "/", ":", "<", "=",
             ">", "?", "@", "^", "_", "~">>))

spaces == discard(repeat(one_of(B(<<" ">>)), 0))

\* A string grammar in which a backslash escapes any byte.
string_any_escape ==
  LET escaped_seq == Then(sym(Ch("\\")), none_of(<<>>))
      string_matcher ==
        Skip(Then(one_of(B(<<"\"">>)),
                  repeat(Or(none_of(B(<<"\\", "\"">>)), escaped_seq), 0)),
             collect(one_of(B(<<"\"">>))))
  IN  map(convert(string_matcher, "from_utf8"), "string")

string ==
  LET special_char == sym(Ch("\""))
      escaped_seq == Then(sym(Ch("\\")), special_char)
      string_matcher ==
        Skip(Then(one_of(B(<<"\"">>)),
                  repeat(Or(none_of(B(<<"\\", "\"">>)), escaped_seq), 0)),
             collect(one_of(B(<<"\"">>))))
  IN  map(convert(string_matcher, "from_utf8"), "string")

atom ==
  LET first_matcher == Or(letter, symbol)
      rest_matcher == repeat(Or(Or(letter, digit), symbol), 0)
  IN  map(collect(Pair(first_matcher, rest_matcher)), "atom")

decimal_number == map(collect(repeat(digit, 1)), "decimal")

binary_number ==
  LET prefix == Then(sym(Ch("#")), sym(Ch("b")))
  IN  map(collect(Then(discard(prefix), repeat(one_of(B(<<"0", "1">>)), 1))),
          "binary")

octal_number ==
  LET prefix == Then(sym(Ch("#")), sym(Ch("o")))
  IN  map(collect(Then(discard(prefix),
                       repeat(one_of(B(<<"0", "1", "2", "3", "4", "5", "6", "7">>)), 1))),
          "octal")

hex_number ==
  LET prefix == Then(sym(Ch("#")), sym(Ch("x")))
  IN  map(collect(Then(discard(prefix),
                       repeat(one_of(B(<<"0", "1", "2", "3", "4", "5", "6", "7",
                                         "8", "9", "a", "b", "c", "d", "e", "f",
                                         "A", "B", "C", "D", "E", "F">>)), 1))),
          "hex")

number == Or(Or(Or(octal_number, binary_number), hex_number), decimal_number)

whitespace == discard(repeat(one_of(B(<<" ", "\t", "\r", "\n">>)), 0))

\* An expression grammar that also takes an expression in parentheses.
parse_expr_parenthesised ==
  LET plain == Or(Or(number, atom), string)
  IN  Or(plain, Skip(Then(sym(Ch("(")), plain), sym(Ch(")"))))

parse_expr == Or(Or(number, atom), string)

\* A list grammar whose elements are separated by spaces() only.
parse_list_spaces == Skip(Then(sym(Ch("(")), list(call(parse_expr), spaces)), sym(Ch(")")))

\* A list grammar that skips whitespace before the closing parenthesis.
parse_list_padded ==
  Skip(Then(sym(Ch("(")), list(call(parse_expr), whitespace)),
       Then(whitespace, sym(Ch(")"))))

parse_list == Skip(Then(sym(Ch("(")), list(call(parse_expr), whitespace)), sym(Ch(")")))

\* Parser::parse(input): the method at cursor 0, the end cursor dropped by
\* the caller (kept here to state what was consumed).
Parse(p, input) == Run(p, input, 0)

\* Result::unwrap on what parse returned (main.rs:108, 112).
Unwrap(r, why) == IF r.kind = "Err" THEN Panic(why) ELSE r

\* LispVal::List(items) of the parsed Vec (main.rs:112).
ListOf(r) == IF r.kind = "Ok" THEN Ok(List(r.out), r.pos) ELSE r

\* A read_expr that demands that the whole input is consumed.
read_expr_to_end(input) ==
  LET r == Parse(parse_expr, input)
  IN  IF r.kind = "Err" \/ (r.kind = "Ok" /\ r.pos # Len(input))
      THEN Panic("read_expr: unwrap") ELSE r

\* main.rs:107-109
read_expr(input) == Unwrap(Parse(parse_expr, input), "read_expr: unwrap")

\* main.rs:111-113
read_list(input) == ListOf(Unwrap(Parse(parse_list, input), "read_list: unwrap"))

(***************************************************************************)
(* The state machine: an input is handed to one of the public functions    *)
(* of main.rs, whose outcome is recorded.                                  *)
(***************************************************************************)

\* The bytes handed to the function: the chunks the input was assembled
\* from, concatenated.
input == Concat(chunks)

NoResult == [kind |-> "None", val |-> NoVal, pos |-> 0, why |-> "none"]

\* What a call to a parser yielding a LispVal came to.
Outcome(r) ==
  [kind |-> r.kind, val |-> IF r.kind = "Ok" THEN r.out ELSE NoVal,
   pos |-> r.pos, why |-> r.why]

\* The same for parse_list, which yields a Vec<LispVal>.
VecOutcome(r) ==
  [kind |-> r.kind,
   val |-> IF r.kind = "Ok" THEN [NoVal EXCEPT !.tag = "Vec", !.items = r.out] ELSE NoVal,
   pos |-> r.pos, why |-> r.why]

Call(name, r) ==
  /\ called = "none"
  /\ called' = name
  /\ result' = r
  /\ UNCHANGED chunks

CallDecimalNumber == Call("decimal_number", Outcome(Parse(decimal_number, input)))
CallBinaryNumber  == Call("binary_number", Outcome(Parse(binary_number, input)))
CallOctalNumber   == Call("octal_number", Outcome(Parse(octal_number, input)))
CallHexNumber     == Call("hex_number", Outcome(Parse(hex_number, input)))
CallNumber        == Call("number", Outcome(Parse(number, input)))
CallAtom          == Call("atom", Outcome(Parse(atom, input)))
CallString        == Call("string", Outcome(Parse(string, input)))
CallParseExpr     == Call("parse_expr", Outcome(Parse(parse_expr, input)))
CallParseList     == Call("parse_list", VecOutcome(Parse(parse_list, input)))
ReadExpr          == Call("read_expr", Outcome(read_expr(input)))
ReadList          == Call("read_list", Outcome(read_list(input)))

Next ==
  \/ CallDecimalNumber
  \/ CallBinaryNumber
  \/ CallOctalNumber
  \/ CallHexNumber
  \/ CallNumber
  \/ CallAtom
  \/ CallString
  \/ CallParseExpr
  \/ CallParseList
  \/ ReadExpr
  \/ ReadList

(***************************************************************************)
(* Inputs                                                                  *)
(***************************************************************************)

\* All sequences over S of length at most n.
RECURSIVE SeqsUpTo(_, _)
SeqsUpTo(S, n) ==
  IF n = 0 THEN {<<>>}
  ELSE LET shorter == SeqsUpTo(S, n - 1)
       IN  shorter \cup {Append(s, x) : s \in {t \in shorter : Len(t) = n - 1}, x \in S}

MaxLen == 4

\* Bytes that meet every alternative of the grammar: a radix prefix, digits,
\* letters, a boolean, a string, list delimiters and whitespace.
Alphabet == SetOf(B(<<"#", "b", "1", "t", "\"", "(", ")", " ">>))

\* Every byte string over Alphabet of length at most MaxLen, as one chunk.
Init ==
  /\ chunks \in {<<s>> : s \in SeqsUpTo(Alphabet, MaxLen)}
  /\ called = "none"
  /\ result = NoResult

Spec == Init /\ [][Next]_vars

(***************************************************************************)
(* Number literals: a radix prefix followed by a run of digits             *)
(***************************************************************************)

MaxShort == 2
MaxRun == 64

BinDigits == B(<<"0", "1">>)
OctDigits == B(<<"0", "1", "2", "3", "4", "5", "6", "7">>)
DecDigits == B(<<"0", "1", "2", "3", "4", "5", "6", "7", "8", "9">>)
LowerDigits == DecDigits \o B(<<"a", "b", "c", "d", "e", "f">>)
UpperDigits == DecDigits \o B(<<"A", "B", "C", "D", "E", "F">>)

\* The four literal forms: the prefix, the radix, the digits of the radix,
\* and the digits the long runs are made of.
Radixes ==
  { [prefix |-> <<>>, radix |-> 10, digits |-> SetOf(DecDigits),
     pool |-> SetOf(B(<<"0", "1", "9">>))],
    [prefix |-> B(<<"#", "b">>), radix |-> 2, digits |-> SetOf(BinDigits),
     pool |-> SetOf(BinDigits)],
    [prefix |-> B(<<"#", "o">>), radix |-> 8, digits |-> SetOf(OctDigits),
     pool |-> SetOf(B(<<"0", "1", "7">>))],
    [prefix |-> B(<<"#", "x">>), radix |-> 16,
     digits |-> SetOf(LowerDigits) \cup SetOf(UpperDigits),
     pool |-> SetOf(B(<<"0", "7", "8", "f", "F">>))] }

\* i64::MAX and i64::MAX + 1 in decimal.
DecMax == B(<<"9", "2", "2", "3", "3", "7", "2", "0", "3", "6", "8", "5", "4",
              "7", "7", "5", "8", "0", "7">>)
DecMaxPlus1 == [DecMax EXCEPT ![19] = Ch("8")]

\* Digit runs of a radix: every run of at most MaxShort digits, and the long
\* runs: at most one leading digit, then 1..MaxRun copies of one digit.
Runs(r) ==
  SeqsUpTo(r.digits, MaxShort)
    \cup {h \o Replicate(f, n) : h \in SeqsUpTo(r.pool, 1), f \in r.pool, n \in 1..MaxRun}
    \cup (IF r.radix = 10 THEN {DecMax, DecMaxPlus1, <<Ch("0")>> \o DecMax} ELSE {})

InitNumber ==
  /\ chunks \in UNION {{<<r.prefix, run>> : run \in Runs(r)} : r \in Radixes}
  /\ called = "none"
  /\ result = NoResult

SpecNumber == InitNumber /\ [][Next]_vars

\* The literal form an input of SpecNumber was drawn from.
FormOf(prefix) == CHOOSE r \in Radixes : r.prefix = prefix

\* The value of a digit byte, read off the digit tables.
RefDigit(c) == (CHOOSE i \in 1..16 : LowerDigits[i] = c \/ UpperDigits[i] = c) - 1

StripZeros(ds) ==
  LET nz == {i \in 1..Len(ds) : ds[i] # 0}
  IN  IF nz = {} THEN <<>>
      ELSE SubSeq(ds, CHOOSE i \in nz : \A j \in nz : i <= j, Len(ds))

\* The digit values of a run, leading zeros dropped.
Canon(run) == StripZeros([i \in 1..Len(run) |-> RefDigit(run[i])])

\* The digit values of i64::MAX = 2^63 - 1 in each radix.
MaxDigits(radix) ==
  CASE radix = 2 -> [i \in 1..63 |-> 1]
    [] radix = 8 -> [i \in 1..21 |-> 7]
    [] radix = 16 -> [i \in 1..16 |-> IF i = 1 THEN 7 ELSE 15]
    [] radix = 10 -> [i \in 1..19 |-> RefDigit(DecMax[i])]

\* a <= b for digit sequences without leading zeros.
DigitsLeq(a, b) ==
  \/ Len(a) < Len(b)
  \/ /\ Len(a) = Len(b)
     /\ \/ a = b
        \/ \E i \in 1..Len(a) : a[i] < b[i] /\ \A j \in 1..(i - 1) : a[j] = b[j]

FitsI64(run, radix) == DigitsLeq(Canon(run), MaxDigits(radix))

\* The digits of a magnitude in `radix`, most significant first, by
\* repeated division of the limbs.
RECURSIVE DigitsOf(_, _)
DigitsOf(mag, radix) ==
  IF mag = <<0, 0, 0>> THEN <<>>
  ELSE LET c1 == mag[1]
           c2 == (c1 % radix) * Limb + mag[2]
           c3 == (c2 % radix) * Limb + mag[3]
       IN  Append(DigitsOf(<<c1 \div radix, c2 \div radix, c3 \div radix>>, radix),
                  c3 % radix)

\* C1: a non-empty run of digits, bare or after #b, #o or #x, is read by
\* read_expr as the Number whose digits in that radix are the run's (leading
\* zeros and letter case aside) when the value fits i64; when it does not,
\* read_expr returns no value: no Number, no Atom.
C1_NumbersReadExactly ==
  (called = "read_expr" /\ Len(chunks) = 2 /\ chunks[2] # <<>>) =>
    LET r == FormOf(chunks[1])
    IN  IF FitsI64(chunks[2], r.radix)
        THEN /\ result.kind = "Ok"
             /\ result.val.tag = "Number"
             /\ ~result.val.num.neg
             /\ DigitsOf(result.val.num.mag, r.radix) = Canon(chunks[2])
             /\ result.val = Number(result.val.num)
        ELSE result.kind = "Panic"

\* C1 witness: read_expr has read a run that fits i64 but not 32 bits, and
\* (in another state) refused a run that does not fit.
C1_Witness ==
  /\ called = "read_expr"
  /\ chunks = <<B(<<"#", "x">>), B(<<"7">>) \o Replicate(Ch("F"), 15)>>
  /\ result.kind = "Ok"
  /\ result.val = Number([neg |-> FALSE, mag |-> <<Limb - 1, Limb - 1, Limb - 1>>])

(***************************************************************************)
(* Tokens: inputs assembled from the pieces of the token grammar           *)
(***************************************************************************)

MaxTokens == 3

TokenPool ==
  { B(<<"#">>), B(<<"#", "t">>), B(<<"#", "f">>), B(<<"#", "b">>), B(<<"#", "x">>),
    B(<<"#", "o">>), B(<<"1">>), B(<<"8">>), B(<<"F">>), B(<<"z">>), B(<<"-">>),
    B(<<" ">>), B(<<"\"">>) }

InitToken ==
  /\ chunks \in SeqsUpTo(TokenPool, MaxTokens)
  /\ called = "none"
  /\ result = NoResult

SpecToken == InitToken /\ [][Next]_vars

\* The byte classes of the grammar, as sets.
LetterBytes == (65..90) \cup (97..122)
DigitBytes == 48..57
SymbolBytes ==
  SetOf(B(<<"!", "#", "$", "%", "&", "|", "*", "+", "-", "/", ":", "<", "=",
            ">", "?", "@", "^", "_", "~">>))
TokenBytes == LetterBytes \cup DigitBytes \cup SymbolBytes

\* The length of the maximal prefix of bs made of a letter or symbol byte
\* followed by token bytes (0 when the first byte is neither).
TokenLen(bs) ==
  IF bs = <<>> \/ bs[1] \notin LetterBytes \cup SymbolBytes THEN 0
  ELSE CHOOSE k \in 1..Len(bs) :
         /\ \A i \in 1..k : bs[i] \in TokenBytes
         /\ k < Len(bs) => bs[k + 1] \notin TokenBytes

\* The value the atom grammar gives a token.
TokenValue(t) ==
  IF t = B(<<"#", "t">>) THEN Bool(TRUE)
  ELSE IF t = B(<<"#", "f">>) THEN Bool(FALSE)
  ELSE Atom(t)

ParserNames ==
  {"decimal_number", "binary_number", "octal_number", "hex_number", "number",
   "atom", "string", "parse_expr", "parse_list"}

NumberParsers ==
  { [name |-> "decimal_number", p |-> decimal_number, digits |-> SetOf(DecDigits)],
    [name |-> "binary_number", p |-> binary_number, digits |-> SetOf(BinDigits)],
    [name |-> "octal_number", p |-> octal_number, digits |-> SetOf(OctDigits)],
    [name |-> "hex_number", p |-> hex_number,
     digits |-> SetOf(LowerDigits) \cup SetOf(UpperDigits)] }

\* A number parser unwinds on this input (the digit run overflows i64).
NumberUnwinds == \E n \in NumberParsers : Parse(n.p, input).kind = "Panic"

\* C2: every parser reports every failure, a digit run that overflows
\* included, as a failed result and never aborts; read_expr and read_list
\* abort only by unwrapping a failed result of their parser.
C2_ParsersNeverAbort ==
  /\ called \in ParserNames => result.kind \in {"Ok", "Err"}
  /\ (called = "read_expr" /\ result.kind = "Panic") =>
       Parse(parse_expr, input).kind = "Err"
  /\ (called = "read_list" /\ result.kind = "Panic") =>
       Parse(parse_list, input).kind = "Err"

\* The statement of C2 on the inputs on which no number parser unwinds.
C2_ApartFromOverflow == NumberUnwinds \/ C2_ParsersNeverAbort

\* C3: parse_expr yields what the first of number, atom, string to succeed
\* at the cursor yields, and fails only if all three fail; so an input with
\* a prefix a number parser accepts is read as a Number.
C3_OrderedAlternation ==
  called = "parse_expr" =>
    LET n == Outcome(Parse(number, input))
        a == Outcome(Parse(atom, input))
        s == Outcome(Parse(string, input))
    IN  /\ n.kind = "Ok" => result = n /\ result.val.tag = "Number"
        /\ (n.kind # "Ok" /\ a.kind = "Ok") => result = a
        /\ (n.kind # "Ok" /\ a.kind # "Ok" /\ s.kind = "Ok") => result = s
        /\ result.kind = "Err" => (n.kind # "Ok" /\ a.kind # "Ok" /\ s.kind # "Ok")
        /\ (n.kind # "Ok" /\ a.kind # "Ok" /\ s.kind # "Ok") => result.kind # "Ok"

\* The statement of C3 on the inputs on which no number parser unwinds.
C3_ApartFromOverflow == NumberUnwinds \/ C3_OrderedAlternation

\* C4: a number parser either succeeds with the cursor at the end of the
\* input or at a byte that is no digit of its radix, or fails; and when all
\* four fail, the atom alternative of parse_expr reads the token from the
\* position they started at.
C4_MaximalOrNothing ==
  /\ \A n \in NumberParsers :
       called = n.name =>
         \/ /\ result.kind = "Ok"
            /\ result.pos >= 1
            /\ input[result.pos] \in n.digits
            /\ result.pos < Len(input) => input[result.pos + 1] \notin n.digits
         \/ result.kind = "Err"
  /\ (/\ called \in {"parse_expr", "read_expr"}
      /\ \A n \in NumberParsers : Parse(n.p, input).kind # "Ok"
      /\ TokenLen(input) > 0) =>
       /\ result.kind = "Ok"
       /\ result.pos = TokenLen(input)
       /\ result.val = TokenValue(SubSeq(input, 1, TokenLen(input)))

\* The statement of C4 on the inputs on which no number parser unwinds.
C4_ApartFromOverflow == NumberUnwinds \/ C4_MaximalOrNothing

\* C5: when no number parser succeeds and the input starts with a letter or
\* a symbol byte, read_expr returns Bool(true) for the token #t, Bool(false)
\* for #f and Atom(token) for every other token.
C5_AtomsAndBools ==
  (/\ called = "read_expr"
   /\ \A n \in NumberParsers : Parse(n.p, input).kind # "Ok"
   /\ TokenLen(input) > 0) =>
    /\ result.kind = "Ok"
    /\ result.val = TokenValue(SubSeq(input, 1, TokenLen(input)))

\* The statement of C5 on the inputs on which no number parser unwinds.
C5_ApartFromOverflow == NumberUnwinds \/ C5_AtomsAndBools

(***************************************************************************)
(* String literals                                                         *)
(***************************************************************************)

MaxStrLen == 5

\* A quote, a backslash, a plain byte, and the two bytes of U+00E9, which
\* are text together (C3 A9) and malformed apart.
StringAlphabet == SetOf(B(<<"\"", "\\", "a">>)) \cup {195, 169}

InitString ==
  /\ chunks \in {<<s>> : s \in SeqsUpTo(StringAlphabet, MaxStrLen)}
  /\ called = "none"
  /\ result = NoResult

SpecString == InitString /\ [][Next]_vars

Quote == Ch("\"")
Backslash == Ch("\\")

\* A body made of items, each one byte other than backslash and quote or
\* the pair backslash quote: every backslash is followed by a quote and
\* every quote follows a backslash.
BodyOfItems(body) ==
  \A i \in 1..Len(body) :
    /\ body[i] = Backslash => (i < Len(body) /\ body[i + 1] = Quote)
    /\ body[i] = Quote => (i > 1 /\ body[i - 1] = Backslash)

\* The positions k at which a literal "body" that starts the input ends.
LiteralEnds(bs) ==
  {k \in 2..Len(bs) :
     bs[1] = Quote /\ bs[k] = Quote /\ BodyOfItems(SubSeq(bs, 2, k - 1))}

\* The body with every backslash quote pair replaced by the quote.
Resolved(body) == SelectSeq(body, LAMBDA b : b # Backslash)

\* C6 as stated: string succeeds exactly on the inputs that start with a
\* literal made of an opening quote, items and a closing quote, and returns
\* String of the resolved body.
C6_StringGrammarExactly ==
  called = "string" =>
    /\ result.kind = "Ok" <=> LiteralEnds(input) # {}
    /\ result.kind = "Ok" =>
         \E k \in LiteralEnds(input) :
           /\ result.pos = k
           /\ result.val = String(Resolved(SubSeq(input, 2, k - 1)))

\* C6 amended: string succeeds exactly on the inputs that start with such a
\* literal whose resolved body is valid UTF-8, returning String of the
\* resolved body; it fails (a failed result) on every other input, a body
\* with a backslash before a byte other than the quote, a literal with no
\* closing quote and a body that is not valid UTF-8 included.
C6_StringGrammarOfText ==
  called = "string" =>
    LET text(k) == Resolved(SubSeq(input, 2, k - 1))
        ends == {k \in LiteralEnds(input) : FromUtf8(text(k)).ok}
    IN  /\ Cardinality(LiteralEnds(input)) <= 1
        /\ result.kind \in {"Ok", "Err"}
        /\ result.kind = "Ok" <=> ends # {}
        /\ result.kind = "Ok" =>
             \E k \in ends : result.pos = k /\ result.val = String(text(k))

\* C6 witness: string has read a literal with an escaped quote in it.
C6_Witness ==
  /\ called = "string"
  /\ input = B(<<"\"", "a", "\\", "\"", "\"">>)
  /\ result.kind = "Ok"
  /\ result.val = String(B(<<"a", "\"">>))

(***************************************************************************)
(* Lists: inputs assembled as  open lead e1 w1 e2 ... en trail close rest  *)
(***************************************************************************)

MaxElems == 2

\* A number, an atom, a boolean, a string with a space and a parenthesis in
\* it, and a nested list.
ElemPool ==
  { B(<<"1">>), B(<<"a">>), B(<<"#", "t">>), B(<<"\"", "a", " ", ")", "\"">>),
    B(<<"(", "1", ")">>) }

\* Separators: none, a space, and a run of the other whitespace bytes.
SepPool == { <<>>, B(<<" ">>), B(<<"\t", "\r", "\n">>) }

WhitespaceBytes == SetOf(B(<<" ", "\t", "\r", "\n">>))

\* e1 w1 e2 ... en for n elements.
RECURSIVE Bodies(_)
Bodies(n) ==
  IF n = 0 THEN {<<>>}
  ELSE IF n = 1 THEN {<<e>> : e \in ElemPool}
  ELSE {b \o <<w, e>> : b \in Bodies(n - 1), w \in SepPool, e \in ElemPool}

ListForms ==
  { <<o, l>> \o b \o <<t, c, r>> :
      o \in {B(<<"(">>), <<>>}, l \in {<<>>, B(<<" ">>)},
      b \in UNION {Bodies(n) : n \in 0..MaxElems},
      t \in {<<>>, B(<<"\n">>)}, c \in {B(<<")">>), <<>>},
      r \in {<<>>, B(<<")", "x">>)} }

InitList ==
  /\ chunks \in ListForms
  /\ called = "none"
  /\ result = NoResult

SpecList == InitList /\ [][Next]_vars

\* The parts of a list form.
Open == chunks[1]
Lead == chunks[2]
Count == (Len(chunks) - 4) \div 2
Elem(i) == chunks[2 * i + 1]
Sep(i) == chunks[2 * i + 2]
Trail == chunks[Len(chunks) - 2]
Close == chunks[Len(chunks) - 1]
Rest == chunks[Len(chunks)]

\* e is an expression: parse_expr succeeds on e and consumes all of it.
IsExpr(e) ==
  LET r == Parse(parse_expr, e) IN r.kind = "Ok" /\ r.pos = Len(e)

ValueOf(e) == Parse(parse_expr, e).out

IsWhitespace(w) == w # <<>> /\ \A i \in 1..Len(w) : w[i] \in WhitespaceBytes

ScalarTags == {"Number", "Atom", "Bool", "String"}

\* C7: on ( e1 w e2 w ... en ), n >= 0, the ei expressions and the w
\* non-empty whitespace, read_list returns the List of the values parse_expr
\* gives the ei, in order; on the same without the closing parenthesis it
\* returns no List.
C7_ListOfElements ==
  (/\ called = "read_list"
   /\ Open = B(<<"(">>) /\ Lead = <<>> /\ Trail = <<>> /\ Rest = <<>>
   /\ \A i \in 1..Count : IsExpr(Elem(i))
   /\ \A i \in 1..(Count - 1) : IsWhitespace(Sep(i))) =>
    IF Close = B(<<")">>)
    THEN /\ result.kind = "Ok"
         /\ result.val = List([i \in 1..Count |-> ValueOf(Elem(i))])
    ELSE result.kind # "Ok"

\* C7 witness: read_list has read a number and a string separated by
\* tab, carriage return and newline.
C7_Witness ==
  /\ called = "read_list"
  /\ chunks = << B(<<"(">>), <<>>, B(<<"1">>), B(<<"\t", "\r", "\n">>),
                 B(<<"\"", "a", " ", ")", "\"">>), <<>>, B(<<")">>), <<>> >>
  /\ result.val = List(<<Number(I64(1)), String(B(<<"a", " ", ")">>))>>)

\* C8: read_expr returns a Number, Atom, Bool or String; read_list returns
\* a List of such values; no DottedList is produced; and read_list fails
\* when an element position holds an opening parenthesis.
C8_Shape ==
  /\ (called = "read_expr" /\ result.kind = "Ok") => result.val.tag \in ScalarTags
  /\ (called = "read_list" /\ result.kind = "Ok") =>
       /\ result.val.tag = "List"
       /\ \A i \in 1..Len(result.val.items) : result.val.items[i].tag \in ScalarTags
  /\ (called \in ParserNames \ {"parse_list"} /\ result.kind = "Ok") =>
       result.val.tag \in ScalarTags
  /\ (called = "parse_list" /\ result.kind = "Ok") =>
       \A i \in 1..Len(result.val.items) : result.val.items[i].tag \in ScalarTags
  /\ (/\ called = "read_list"
      /\ Open = B(<<"(">>)
      /\ \E i \in 1..Count :
           /\ Elem(i)[1] = Ch("(")
           /\ \A j \in 1..(i - 1) : IsExpr(Elem(j))) =>
       result.kind = "Panic"

\* C8 witness: read_list has refused a list whose second element is a list.
C8_Witness ==
  /\ called = "read_list"
  /\ input = B(<<"(", "1", " ", "(", "1", ")", ")">>)
  /\ result.kind = "Panic"

\* C9: when parse_expr succeeds at 0 consuming k bytes, read_expr returns
\* its value whatever follows, and that value is the one the first k bytes
\* alone give; likewise read_list and parse_list.
C9_TrailingBytesIgnored ==
  /\ called = "read_expr" =>
       LET r == Parse(parse_expr, input)
       IN  r.kind = "Ok" =>
             /\ result.kind = "Ok" /\ result.val = r.out
             /\ Parse(parse_expr, SubSeq(input, 1, r.pos)) = r
  /\ called = "read_list" =>
       LET r == Parse(parse_list, input)
       IN  r.kind = "Ok" =>
             /\ result.kind = "Ok" /\ result.val = List(r.out)
             /\ Parse(parse_list, SubSeq(input, 1, r.pos)) = r

\* C9 witness: read_expr has returned a String with bytes left after it.
C9_Witness ==
  /\ called = "read_expr"
  /\ input = B(<<"\"", "t", "\"", ")">>)
  /\ result.pos = 3
  /\ result.val = String(B(<<"t">>))

\* ei cannot be continued by the bytes of the element that follows it.
Stops(i) ==
  LET r == Parse(parse_expr, Elem(i) \o Elem(i + 1))
  IN  r.kind = "Ok" /\ r.pos = Len(Elem(i))

\* C10: read_list fails when whitespace follows the opening parenthesis or
\* precedes the closing one; and elements with nothing between them are
\* read as separate elements when the first cannot run on into the second.
C10_WhitespaceOnlyBetween ==
  (called = "read_list" /\ Open = B(<<"(">>)) =>
    /\ (Lead # <<>> \/ Trail # <<>>) => result.kind = "Panic"
    /\ (/\ Lead = <<>> /\ Trail = <<>> /\ Close = B(<<")">>)
        /\ \A i \in 1..Count : IsExpr(Elem(i))
        /\ \A i \in 1..(Count - 1) : Sep(i) = <<>> => Stops(i)) =>
         /\ result.kind = "Ok"
         /\ result.val = List([i \in 1..Count |-> ValueOf(Elem(i))])

\* C10 witness: read_list has read (1"a )") as two elements.
C10_Witness ==
  /\ called = "read_list"
  /\ chunks = << B(<<"(">>), <<>>, B(<<"1">>), <<>>,
                 B(<<"\"", "a", " ", ")", "\"">>), <<>>, B(<<")">>), <<>> >>
  /\ result.val = List(<<Number(I64(1)), String(B(<<"a", " ", ")">>))>>)

\* C10 witness of the refusals: read_list has refused ( 1) .
C10_RefusalWitness ==
  /\ called = "read_list"
  /\ input = B(<<"(", " ", "1", ")">>)
  /\ result.kind = "Panic"

=============================================================================
